---- MODULE Spec2Model ----
(***************************************************************************)
(* Model of the hookly video worker.                                       *)
(*                                                                         *)
(*  - SpecCompile: the edit-configuration compiler buildFFmpegArgs with    *)
(*    its helpers (timing resolution, effect / transition generators,      *)
(*    audio plan, graph assembly), in its version with the audio plan;     *)
(*  - SpecEngine: the engine invoker runFFmpeg (src/processor.ts, the      *)
(*    version with the timeout), event by event;                           *)
(*  - Spec: the job poller pollForJobs (src/index.ts) with the pipeline    *)
(*    processJob, one action per await.                                    *)
(*                                                                         *)
(* Times are integers in milliseconds (the code's seconds are ms/1000),    *)
(* zoom factors are integers in thousandths, intensity multipliers are     *)
(* integers in tenths.  A filter_complex program is a sequence of          *)
(* fragments; a fragment is a record of its input pads, its chain of       *)
(* filters and its output pads, in the order the code concatenates them.   *)
(***************************************************************************)
EXTENDS Integers, Sequences, FiniteSets, TLC

VARIABLES
    \* ---- compiler (buildFFmpegArgs) ----
    cpc,        \* position inside buildFFmpegArgs
    probe,      \* results of getVideoDuration / hasAudioStream
    cfg,        \* the job's config (JobConfig)
    hookText,   \* the job's hook_text
    args,       \* the compiled argument vector
    \* ---- engine invoker (runFFmpeg) ----
    eng,        \* one runFFmpeg call: the child process, the timer, the promise
    \* ---- worker (index.ts, processJob) ----
    isProcessing,   \* let isProcessing
    jobs,           \* the video_jobs table: job id -> row
    poll            \* the pollForJobs invocations in flight: slot -> locals

vars == <<cpc, probe, cfg, hookText, args, eng, isProcessing, jobs, poll>>

cvars == <<cpc, probe, cfg, hookText, args>>

wvars == <<isProcessing, jobs, poll>>

\* the worker is not running (specifications of the other components)
WorkerOff ==
    /\ isProcessing = FALSE
    /\ jobs = <<>>
    /\ poll = <<>>

----------------------------------------------------------------------------
(* Arithmetic helpers (Math.max, Math.min, Math.floor of a quotient) *)

Max(a, b) == IF a >= b THEN a ELSE b

Min(a, b) == IF a <= b THEN a ELSE b

\* Math.floor(n / m) for m > 0, also for negative n
FloorDiv(n, m) == IF n >= 0 THEN n \div m ELSE -((-n + m - 1) \div m)

----------------------------------------------------------------------------
(* Program constants *)

FPS == 30
MinFrames == 30
FrameW == 1080
FrameH == 1920
ZoomCutCapMs == 300
DefaultFontSize == 72
ProbeFallbackMs == 5000

----------------------------------------------------------------------------
(* Configuration values (types.ts) *)

NoTrim == [present |-> FALSE, startTime |-> 0, endTime |-> 0, useFullVideo |-> FALSE]

Trim(s, e, u) == [present |-> TRUE, startTime |-> s, endTime |-> e, useFullVideo |-> u]

NoTransition == [present |-> FALSE, type |-> "", duration |-> 0]

Transition(t, d) == [present |-> TRUE, type |-> t, duration |-> d]

NoTextStyle == [present |-> FALSE, fontSize |-> "", color |-> "", fontWeight |-> ""]

TextStyle(sz, c, w) == [present |-> TRUE, fontSize |-> sz, color |-> c, fontWeight |-> w]

NoTextPosition == [present |-> FALSE, x |-> 0, y |-> 0]

TextPosition(x, y) == [present |-> TRUE, x |-> x, y |-> y]

\* hook_text: string | null, a string being a sequence of characters
NullText == [null |-> TRUE, s |-> <<>>]

Text(s) == [null |-> FALSE, s |-> s]

NoEffect == [present |-> FALSE, type |-> "", intensity |-> ""]

Effect(t, i) == [present |-> TRUE, type |-> t, intensity |-> i]

\* a filter of a chain: name, integer parameters, string parameter
Flt(f, p, s) == [f |-> f, p |-> p, s |-> s]

\* the empty string a generator returns for "no filter"
EmptyFilter == Flt("", <<>>, "")

\* a filter_complex statement: [ins]chain[outs]
Fragment(ins, chain, outs) == [ins |-> ins, chain |-> chain, outs |-> outs]

----------------------------------------------------------------------------
(* Generators *)

\* getIntensityMultiplier, in tenths
getIntensityMultiplier(intensity) ==
    CASE intensity = "subtle" -> 5
      [] intensity = "medium" -> 10
      [] intensity = "strong" -> 15
      [] OTHER -> 10

\* getFontSizePixels
getFontSizePixels(fontSize) ==
    CASE fontSize = "small" -> 48
      [] fontSize = "medium" -> 72
      [] fontSize = "large" -> 96
      [] OTHER -> 72

\* the frame count an effect animates over
EffectFramesNoClamp(durationFrames) == durationFrames

EffectFrames(durationFrames) == Max(durationFrames, MinFrames)

\* const zoomEnd = 1 + (0.15 * intensity), in thousandths
ZoomEndDouble(intensity) == 1000 + 30 * intensity

ZoomEnd(intensity) == 1000 + 15 * intensity

\* const punchFrames = Math.floor(d * 0.2)
PunchFrames(d) == FloorDiv(d * 2, 10)

\* const cropZoom = 1 + (0.1 * intensity), in thousandths
CropZoomShrink(intensity) == 1000 - 10 * intensity

CropZoom(intensity) == 1000 + 10 * intensity

\* Math.round(side * cropZoom)
ScaledSide(side, cropZoom) == FloorDiv(side * cropZoom + 500, 1000)

\* buildEffectFilter: p = <<d, ...>> per kind
buildEffectFilter(effect, durationFrames) ==
    LET intensity == getIntensityMultiplier(effect.intensity)
        d == EffectFrames(durationFrames)
    IN  CASE effect.type = "zoom-in" ->
               \* z = min(1 + on*inc, zoomEnd); p = <<d, zoomEnd, incNum, incDen>>
               LET zoomEnd == ZoomEnd(intensity)
               IN  Flt("zoompan", <<d, zoomEnd, zoomEnd - 1000, d>>, "zoom-in")
          [] effect.type = "punch-zoom" ->
               \* p = <<d, punchZoom, punchFrames, incNum, incDen>>
               LET punchZoom == 1000 + 20 * intensity
                   punchFrames == PunchFrames(d)
               IN  Flt("zoompan", <<d, punchZoom, punchFrames, punchZoom - 1000, punchFrames>>,
                       "punch-zoom")
          [] effect.type = "vertical-pan" ->
               \* p = <<d, panZoom, panAmount, slopeNum, slopeDen>>
               LET panAmount == FloorDiv(FrameH * 5 * intensity, 1000)
               IN  Flt("zoompan", <<d, 1100, panAmount, panAmount * 2, d>>, "vertical-pan")
          [] effect.type = "center-crop" ->
               \* scale=W:H,crop=1080:1920:(iw-1080)/2:(ih-1920)/2 ; p = <<W, H>>
               LET cropZoom == CropZoom(intensity)
               IN  Flt("scale+crop", <<ScaledSide(FrameW, cropZoom),
                                       ScaledSide(FrameH, cropZoom)>>, "center-crop")
          [] OTHER -> EmptyFilter

\* legacy alias
buildHookEffectFilter(effect, durationFrames) == buildEffectFilter(effect, durationFrames)

\* the offset of a blend
TransitionOffsetNoClamp(hookDuration, durationSec) == hookDuration - durationSec

TransitionOffset(hookDuration, durationSec) == Max(0, hookDuration - durationSec)

\* the duration of the zoom-cut blend
ZoomCutDurationNoCap(durationSec) == durationSec

ZoomCutDuration(durationSec) == Min(durationSec, ZoomCutCapMs)

\* buildTransitionFilter: p = <<duration, offset>>
buildTransitionFilter(transition, hookDuration) ==
    LET durationSec == transition.duration
        offset == TransitionOffset(hookDuration, durationSec)
    IN  CASE transition.type = "crossfade" -> Flt("xfade", <<durationSec, offset>>, "fade")
          [] transition.type = "push-up" -> Flt("xfade", <<durationSec, offset>>, "slideup")
          [] transition.type = "zoom-cut" ->
               Flt("xfade", <<ZoomCutDuration(durationSec), offset>>, "zoomin")
          [] OTHER -> EmptyFilter

----------------------------------------------------------------------------
(* Text escaping: String.prototype.replace(/c/g, r), one pass per call *)

RECURSIVE ReplaceAll(_, _, _)
ReplaceAll(s, c, r) ==
    IF s = <<>> THEN <<>>
    ELSE (IF Head(s) = c THEN r ELSE <<Head(s)>>) \o ReplaceAll(Tail(s), c, r)

BSL == "\\"

\* the five substitutions with the backslash pass last
escapeTextBackslashLast(s) ==
    LET s1 == ReplaceAll(s, "'", <<"'", BSL, "'", "'">>)
        s2 == ReplaceAll(s1, ":", <<BSL, ":">>)
        s3 == ReplaceAll(s2, "[", <<BSL, "[">>)
        s4 == ReplaceAll(s3, "]", <<BSL, "]">>)
    IN  ReplaceAll(s4, BSL, <<BSL, BSL>>)

escapeText(s) ==
    LET s1 == ReplaceAll(s, BSL, <<BSL, BSL>>)
        s2 == ReplaceAll(s1, "'", <<"'", BSL, "'", "'">>)
        s3 == ReplaceAll(s2, ":", <<BSL, ":">>)
        s4 == ReplaceAll(s3, "[", <<BSL, "[">>)
    IN  ReplaceAll(s4, "]", <<BSL, "]">>)

----------------------------------------------------------------------------
(* buildFFmpegArgs *)

\* config?.hookTrim && !config.hookTrim.useFullVideo
TrimActive(trim) == trim.present /\ ~trim.useFullVideo

\* hookStartTime / demoStartTime
ResolveStart(trim) == IF TrimActive(trim) THEN trim.startTime ELSE 0

\* hookDuration / demoDuration
ResolveDurationIgnoreFull(trim, probed) ==
    IF trim.present THEN trim.endTime - trim.startTime ELSE probed

ResolveDuration(trim, probed) ==
    IF TrimActive(trim) THEN trim.endTime - trim.startTime ELSE probed

\* Math.floor(duration * 30)
Frames(duration) == FloorDiv(duration * FPS, 1000)

\* scale, pad, setsar, fps
ScaleChain ==
    << Flt("scale", <<FrameW, FrameH>>, "force_original_aspect_ratio=decrease"),
       Flt("pad", <<FrameW, FrameH>>, "(ow-iw)/2:(oh-ih)/2:black"),
       Flt("setsar", <<1>>, ""),
       Flt("fps", <<FPS>>, "") >>

\* trim=start=S:end=E,setpts=PTS-STARTPTS,
TrimChain(trim) ==
    IF TrimActive(trim)
    THEN << Flt("trim", <<ResolveStart(trim), trim.endTime>>, ""),
            Flt("setpts", <<>>, "PTS-STARTPTS") >>
    ELSE <<>>

\* EffectChain without the if (effectFilter) test
EffectChainKeepEmpty(effect, frames, hook) ==
    IF effect.present /\ effect.type # "none"
    THEN LET effectFilter == IF hook THEN buildHookEffectFilter(effect, frames)
                                     ELSE buildEffectFilter(effect, frames)
         IN  <<effectFilter>>
    ELSE <<>>

\* the effect part of a video chain
EffectChain(effect, frames, hook) ==
    IF effect.present /\ effect.type # "none"
    THEN LET effectFilter == IF hook THEN buildHookEffectFilter(effect, frames)
                                     ELSE buildEffectFilter(effect, frames)
         IN  IF effectFilter # EmptyFilter THEN <<effectFilter>> ELSE <<>>
    ELSE <<>>

\* if (hookText)
Truthy(text) == ~text.null /\ text.s # <<>>

\* DrawTextChain with a fixed 3 s window
DrawTextChainFixedWindow(text, config, hookDuration) ==
    IF Truthy(text)
    THEN LET escapedText == escapeText(text.s)
             fontSize == IF config.textStyle.present /\ config.textStyle.fontSize # ""
                         THEN getFontSizePixels(config.textStyle.fontSize)
                         ELSE DefaultFontSize
             fontColor == IF config.textStyle.present /\ config.textStyle.color # ""
                          THEN config.textStyle.color ELSE "white"
             fontWeight == IF config.textStyle.present /\ config.textStyle.fontWeight # ""
                           THEN config.textStyle.fontWeight ELSE "normal"
             textX == IF config.textPosition.present THEN config.textPosition.x ELSE -1
             textY == IF config.textPosition.present THEN config.textPosition.y ELSE -1
         IN  << [f |-> "drawtext",
                 p |-> <<fontSize, 0, 3000, textX, textY>>,
                 s |-> fontColor,
                 text |-> escapedText,
                 font |-> IF fontWeight = "bold" THEN "DejaVu Sans Bold" ELSE ""] >>
    ELSE <<>>

\* the drawtext filter: p = <<fontSize, enableFrom, enableTo, x%, y%>>
\* (x%, y% = -1 when the text is frame-centred); s = the colour
DrawTextChain(text, config, hookDuration) ==
    IF Truthy(text)
    THEN LET escapedText == escapeText(text.s)
             fontSize == IF config.textStyle.present /\ config.textStyle.fontSize # ""
                         THEN getFontSizePixels(config.textStyle.fontSize)
                         ELSE DefaultFontSize
             fontColor == IF config.textStyle.present /\ config.textStyle.color # ""
                          THEN config.textStyle.color ELSE "white"
             fontWeight == IF config.textStyle.present /\ config.textStyle.fontWeight # ""
                           THEN config.textStyle.fontWeight ELSE "normal"
             textX == IF config.textPosition.present THEN config.textPosition.x ELSE -1
             textY == IF config.textPosition.present THEN config.textPosition.y ELSE -1
         IN  << [f |-> "drawtext",
                 p |-> <<fontSize, 0, hookDuration, textX, textY>>,
                 s |-> fontColor,
                 text |-> escapedText,
                 font |-> IF fontWeight = "bold" THEN "DejaVu Sans Bold" ELSE ""] >>
    ELSE <<>>

\* const audioSource = config?.audioSource || "hook"
AudioSourceOf(config) == IF config.audioSource = "" THEN "hook" ELSE config.audioSource

\* const includeAudio = audioSource !== "none"
includeAudioAlways(audioSource) == TRUE

includeAudio(audioSource) == audioSource # "none"

\* one side's audio fragment
AudioFragmentNoTrim(input, trim, hasAudio, duration, out) ==
    IF hasAudio
    THEN Fragment(<<input>>, << Flt("anull", <<>>, "") >>, <<out>>)
    ELSE Fragment(<<>>, << Flt("anullsrc", <<44100, duration>>, "stereo") >>, <<out>>)

AudioFragment(input, trim, hasAudio, duration, out) ==
    IF hasAudio
    THEN Fragment(<<input>>,
                  IF TrimActive(trim)
                  THEN << Flt("atrim", <<ResolveStart(trim), trim.endTime>>, ""),
                          Flt("asetpts", <<>>, "PTS-STARTPTS") >>
                  ELSE << Flt("anull", <<>>, "") >>,
                  <<out>>)
    ELSE Fragment(<<>>, << Flt("anullsrc", <<44100, duration>>, "stereo") >>, <<out>>)

needHookAudio(audioSource) == audioSource = "hook" \/ audioSource = "both"

needDemoAudioOnlyBoth(audioSource) == audioSource = "both"

needDemoAudio(audioSource) == audioSource = "demo" \/ audioSource = "both"

\* AudioFragments with the demo side pushed before the hook side
AudioFragmentsDemoFirst(config, pr, hookDuration, demoDuration) ==
    LET audioSource == AudioSourceOf(config)
    IN  IF includeAudio(audioSource)
        THEN (IF needDemoAudio(audioSource)
              THEN << AudioFragment("1:a", config.demoTrim, pr.mainHasAudio, demoDuration, "a1") >>
              ELSE <<>>)
             \o
             (IF needHookAudio(audioSource)
              THEN << AudioFragment("0:a", config.hookTrim, pr.introHasAudio, hookDuration, "a0") >>
              ELSE <<>>)
        ELSE <<>>

\* === AUDIO PROCESSING ===
AudioFragments(config, pr, hookDuration, demoDuration) ==
    LET audioSource == AudioSourceOf(config)
    IN  IF includeAudio(audioSource)
        THEN (IF needHookAudio(audioSource)
              THEN << AudioFragment("0:a", config.hookTrim, pr.introHasAudio, hookDuration, "a0") >>
              ELSE <<>>)
             \o
             (IF needDemoAudio(audioSource)
              THEN << AudioFragment("1:a", config.demoTrim, pr.mainHasAudio, demoDuration, "a1") >>
              ELSE <<>>)
        ELSE <<>>

ConcatVideo == Fragment(<<"v0", "v1">>, << Flt("concat", <<2, 1, 0>>, "") >>, <<"outv">>)

\* CombineVideo without the transition.duration > 0 test
CombineVideoNoDurationTest(config, hookDuration) ==
    LET transition == config.transition
    IN  IF transition.present /\ transition.type # "cut"
        THEN LET transitionFilter == buildTransitionFilter(transition, hookDuration)
             IN  IF transitionFilter # EmptyFilter
                 THEN << Fragment(<<"v0", "v1">>, <<transitionFilter>>, <<"outv">>) >>
                 ELSE << ConcatVideo >>
        ELSE << ConcatVideo >>

\* === COMBINE VIDEOS ===
CombineVideo(config, hookDuration) ==
    LET transition == config.transition
    IN  IF transition.present /\ transition.type # "cut" /\ transition.duration > 0
        THEN LET transitionFilter == buildTransitionFilter(transition, hookDuration)
             IN  IF transitionFilter # EmptyFilter
                 THEN << Fragment(<<"v0", "v1">>, <<transitionFilter>>, <<"outv">>) >>
                 ELSE << ConcatVideo >>
        ELSE << ConcatVideo >>

\* const totalDuration = hookDuration + demoDuration
TotalDurationHookOnly(hookDuration, demoDuration) == hookDuration

TotalDuration(hookDuration, demoDuration) == hookDuration + demoDuration

\* Math.round(hookDuration * 1000): seconds to whole milliseconds (times are kept in ms)
DelayMs(hookDuration) == hookDuration

\* CombineAudio with the pads of the both policy swapped
CombineAudioDemoFirst(config, hookDuration, demoDuration) ==
    LET audioSource == AudioSourceOf(config)
    IN  IF includeAudio(audioSource)
        THEN CASE audioSource = "hook" ->
                    << Fragment(<<"a0">>,
                                << Flt("apad", <<TotalDuration(hookDuration, demoDuration)>>, "") >>,
                                <<"outa">>) >>
               [] audioSource = "demo" ->
                    << Fragment(<<"a1">>,
                                << Flt("adelay", <<DelayMs(hookDuration), DelayMs(hookDuration)>>, "") >>,
                                <<"outa">>) >>
               [] audioSource = "both" ->
                    << Fragment(<<"a1", "a0">>, << Flt("concat", <<2, 0, 1>>, "") >>, <<"outa">>) >>
               [] OTHER -> <<>>
        ELSE <<>>

\* === COMBINE AUDIO ===
CombineAudio(config, hookDuration, demoDuration) ==
    LET audioSource == AudioSourceOf(config)
    IN  IF includeAudio(audioSource)
        THEN CASE audioSource = "hook" ->
                    << Fragment(<<"a0">>,
                                << Flt("apad", <<TotalDuration(hookDuration, demoDuration)>>, "") >>,
                                <<"outa">>) >>
               [] audioSource = "demo" ->
                    << Fragment(<<"a1">>,
                                << Flt("adelay", <<DelayMs(hookDuration), DelayMs(hookDuration)>>, "") >>,
                                <<"outa">>) >>
               [] audioSource = "both" ->
                    << Fragment(<<"a0", "a1">>, << Flt("concat", <<2, 0, 1>>, "") >>, <<"outa">>) >>
               [] OTHER -> <<>>
        ELSE <<>>

\* the argument vector: the inputs, the filter_complex fragments in order, the -map
\* values in order, and whether the audio codec flags are present
buildFFmpegArgs(text, config, pr) ==
    LET hookDuration == ResolveDuration(config.hookTrim, pr.introDuration)
        demoDuration == ResolveDuration(config.demoTrim, pr.mainDuration)
        hookFrames == Frames(hookDuration)
        demoFrames == Frames(demoDuration)
        audio == includeAudio(AudioSourceOf(config))
        introFilter == Fragment(<<"0:v">>,
                                TrimChain(config.hookTrim) \o ScaleChain
                                  \o EffectChain(config.hookEffect, hookFrames, TRUE)
                                  \o DrawTextChain(text, config, hookDuration),
                                <<"v0">>)
        mainFilter == Fragment(<<"1:v">>,
                               TrimChain(config.demoTrim) \o ScaleChain
                                 \o EffectChain(config.demoEffect, demoFrames, FALSE),
                               <<"v1">>)
        filterParts == <<introFilter, mainFilter>>
                         \o AudioFragments(config, pr, hookDuration, demoDuration)
                         \o CombineVideo(config, hookDuration)
                         \o CombineAudio(config, hookDuration, demoDuration)
    IN  [ inputs |-> <<"intro", "main">>,
          hookStartTime |-> ResolveStart(config.hookTrim),
          hookDuration |-> hookDuration,
          demoStartTime |-> ResolveStart(config.demoTrim),
          demoDuration |-> demoDuration,
          filterParts |-> filterParts,
          maps |-> <<"outv">> \o (IF audio THEN <<"outa">> ELSE <<>>),
          audioCodec |-> audio ]

----------------------------------------------------------------------------
(* runFFmpeg: the engine invoker *)

FFMPEG_TIMEOUT_MS == 300000

\* a promise result { success, error? }; an error message is kept as its parts:
\* kind "timeout" (code = the seconds), "start", "stderr" (lines = the joined
\* lines, in order), "exitcode" (code = the exit code)
NoError == [kind |-> "", lines |-> <<>>, code |-> 0]

NoResult == [settled |-> FALSE, success |-> FALSE, error |-> NoError]

Success == [settled |-> TRUE, success |-> TRUE, error |-> NoError]

Failure(e) == [settled |-> TRUE, success |-> FALSE, error |-> e]

TimeoutError == [kind |-> "timeout", lines |-> <<>>, code |-> FFMPEG_TIMEOUT_MS \div 1000]

StartError == [kind |-> "start", lines |-> <<>>, code |-> 0]

\* resolve(v) of a promise: the first call settles it, later calls do nothing
Resolve(result, v) == IF result.settled THEN result ELSE v

\* the state before spawn
NoEngine ==
    [ spawned |-> FALSE,     \* spawn("ffmpeg", args) was called
      timer |-> "unset",     \* the setTimeout: unset, armed, fired, cleared
      resolved |-> FALSE,    \* let resolved
      killed |-> FALSE,      \* ffmpeg.kill("SIGKILL") was called
      stderr |-> <<>>,       \* the lines of let stderr
      errorEmitted |-> FALSE,\* the child emitted 'error'
      closed |-> FALSE,      \* the child emitted 'close'
      code |-> 0,            \* the exit code 'close' carried (-1 for null)
      result |-> NoResult ]  \* what the returned promise resolved to

\* a stderr line is a sequence of tokens
LineIncludes(line, kw) == \E i \in DOMAIN line : line[i] = kw

\* line.includes("Error") || line.includes("error") || line.includes("Invalid") || ...
IsErrorLine(line) ==
    \/ LineIncludes(line, "Error") \/ LineIncludes(line, "error")
    \/ LineIncludes(line, "Invalid") \/ LineIncludes(line, "No such")

\* l.trim() is not empty
IsNonBlank(line) == \E i \in DOMAIN line : line[i] # " "

\* seq.slice(-n)
LastN(seq, n) == SubSeq(seq, Max(1, Len(seq) - n + 1), Len(seq))

\* seq.slice(0, n)
FirstN(seq, n) == SubSeq(seq, 1, Min(n, Len(seq)))

\* ExtractError with slice(0, n) for slice(-n)
ExtractErrorFirstLines(stderr, code) ==
    LET errorLines == SelectSeq(stderr, IsErrorLine)
        lastLines == FirstN(SelectSeq(stderr, IsNonBlank), 5)
    IN  IF Len(errorLines) > 0
        THEN [kind |-> "stderr", lines |-> FirstN(errorLines, 3), code |-> 0]
        ELSE IF lastLines # <<>>
             THEN [kind |-> "stderr", lines |-> lastLines, code |-> 0]
             ELSE [kind |-> "exitcode", lines |-> <<>>, code |-> code]

\* the errorMessage of the 'close' handler for a non-zero code
ExtractError(stderr, code) ==
    LET errorLines == SelectSeq(stderr, IsErrorLine)
        lastLines == LastN(SelectSeq(stderr, IsNonBlank), 5)
    IN  IF Len(errorLines) > 0
        THEN [kind |-> "stderr", lines |-> LastN(errorLines, 3), code |-> 0]
        ELSE IF lastLines # <<>>
             THEN [kind |-> "stderr", lines |-> lastLines, code |-> 0]
             ELSE [kind |-> "exitcode", lines |-> <<>>, code |-> code]

\* const ffmpeg = spawn("ffmpeg", args) ... const timeout = setTimeout(...)
Spawn ==
    /\ ~eng.spawned
    /\ eng' = [eng EXCEPT !.spawned = TRUE, !.timer = "armed"]
    /\ UNCHANGED <<cvars, wvars>>

\* ffmpeg.stderr.on("data", ...)
OnStderrData(line) ==
    /\ eng.spawned /\ ~eng.closed
    /\ eng' = [eng EXCEPT !.stderr = Append(@, line)]
    /\ UNCHANGED <<cvars, wvars>>

\* the setTimeout callback
OnTimeout ==
    /\ eng.timer = "armed"
    /\ eng' = IF ~eng.resolved
              THEN [eng EXCEPT !.timer = "fired", !.resolved = TRUE, !.killed = TRUE,
                               !.result = Resolve(@, Failure(TimeoutError))]
              ELSE [eng EXCEPT !.timer = "fired"]
    /\ UNCHANGED <<cvars, wvars>>

\* clearTimeout(timeout): cancels a timer that has not fired
ClearTimeout(timer) == IF timer = "armed" THEN "cleared" ELSE timer

\* ffmpeg.on("error", ...)
OnError ==
    /\ eng.spawned /\ ~eng.errorEmitted /\ ~eng.closed
    /\ eng' = IF ~eng.resolved
              THEN [eng EXCEPT !.errorEmitted = TRUE, !.resolved = TRUE,
                               !.timer = ClearTimeout(@),
                               !.result = Resolve(@, Failure(StartError))]
              ELSE [eng EXCEPT !.errorEmitted = TRUE]
    /\ UNCHANGED <<cvars, wvars>>

\* the 'close' handler without its clearTimeout
OnCloseNoClear(code) ==
    /\ eng.spawned /\ ~eng.closed
    /\ eng' = IF eng.resolved
              THEN [eng EXCEPT !.closed = TRUE, !.code = code]
              ELSE [eng EXCEPT !.closed = TRUE, !.code = code, !.resolved = TRUE,
                               !.result = Resolve(@, IF code = 0 THEN Success
                                                     ELSE Failure(ExtractError(eng.stderr, code)))]
    /\ UNCHANGED <<cvars, wvars>>

\* the 'close' handler failing on error lines whatever the code
OnCloseScanStderr(code) ==
    /\ eng.spawned /\ ~eng.closed
    /\ eng' = IF eng.resolved
              THEN [eng EXCEPT !.closed = TRUE, !.code = code]
              ELSE [eng EXCEPT !.closed = TRUE, !.code = code, !.resolved = TRUE,
                               !.timer = ClearTimeout(@),
                               !.result = Resolve(@,
                                   IF code = 0 /\ SelectSeq(eng.stderr, IsErrorLine) = <<>>
                                   THEN Success
                                   ELSE Failure(ExtractError(eng.stderr, code)))]
    /\ UNCHANGED <<cvars, wvars>>

\* ffmpeg.on("close", ...)
OnClose(code) ==
    /\ eng.spawned /\ ~eng.closed
    /\ eng' = IF eng.resolved
              THEN [eng EXCEPT !.closed = TRUE, !.code = code]
              ELSE [eng EXCEPT !.closed = TRUE, !.code = code, !.resolved = TRUE,
                               !.timer = ClearTimeout(@),
                               !.result = Resolve(@, IF code = 0 THEN Success
                                                     ELSE Failure(ExtractError(eng.stderr, code)))]
    /\ UNCHANGED <<cvars, wvars>>

----------------------------------------------------------------------------
(* Inputs of the compiler *)

\* probed durations (ms): a sub-second clip, the probe fallback, a longer clip
\* (a sub-second demo comes from DemoTrims)
IntroDurations == {400, ProbeFallbackMs}

MainDurations == {8000}

\* trims: absent, use-full-video (with a window that must be ignored), an active
\* window, an active window of non-positive length, an active sub-second window
HookTrims == { NoTrim, Trim(1000, 3000, TRUE), Trim(2000, 7000, FALSE),
               Trim(5000, 3000, FALSE) }

DemoTrims == { NoTrim, Trim(1000, 2000, TRUE), Trim(1000, 1400, FALSE),
               Trim(3000, 3000, FALSE) }

Transitions == { NoTransition, Transition("cut", 500), Transition("crossfade", 500),
                 Transition("crossfade", 0), Transition("push-up", 9000),
                 Transition("zoom-cut", 200), Transition("zoom-cut", 500),
                 Transition("wipe", 500) }

HookEffects == { NoEffect, Effect("zoom-in", "medium"), Effect("vertical-pan", "strong"),
                 Effect("sparkle", "strong"), Effect("center-crop", "subtle"),
                 Effect("center-crop", "strong"), Effect("none", "subtle") }

DemoEffects == { NoEffect, Effect("none", "medium"), Effect("punch-zoom", "subtle"),
                 Effect("zoom-in", "extreme"), Effect("center-crop", "medium"),
                 Effect("sparkle", "extreme") }

\* "" is an absent audioSource; "mute" is a value outside the AudioSource type
AudioSources == { "", "hook", "demo", "both", "none", "mute" }

Texts == { NullText, Text(<<>>), Text(<<"H", "i">>) }

Configs ==
    [ hookTrim : HookTrims, demoTrim : DemoTrims, transition : Transitions,
      hookEffect : HookEffects, demoEffect : DemoEffects,
      textStyle : {NoTextStyle}, textPosition : {NoTextPosition},
      audioSource : AudioSources ]

NoConfig ==
    [ hookTrim |-> NoTrim, demoTrim |-> NoTrim, transition |-> NoTransition,
      hookEffect |-> NoEffect, demoEffect |-> NoEffect,
      textStyle |-> NoTextStyle, textPosition |-> NoTextPosition, audioSource |-> "" ]

NoProbe == [ introDuration |-> 0, mainDuration |-> 0,
             introHasAudio |-> FALSE, mainHasAudio |-> FALSE ]

NoArgs == [ inputs |-> <<>>, hookStartTime |-> 0, hookDuration |-> 0, demoStartTime |-> 0,
            demoDuration |-> 0, filterParts |-> <<>>, maps |-> <<>>, audioCodec |-> FALSE ]

----------------------------------------------------------------------------
(* The compiler as a state machine: one call of buildFFmpegArgs *)

InitCompile ==
    /\ eng = NoEngine
    /\ WorkerOff
    /\ cpc = "durations"
    /\ probe = NoProbe
    /\ cfg = NoConfig
    /\ hookText = NullText
    /\ args = NoArgs

\* const introDuration = await getVideoDuration(introPath) ; mainDuration likewise
GetDurations ==
    /\ cpc = "durations"
    /\ \E i \in IntroDurations, m \in MainDurations :
          probe' = [probe EXCEPT !.introDuration = i, !.mainDuration = m]
    /\ cpc' = "audio"
    /\ UNCHANGED <<cfg, hookText, args, eng, wvars>>

\* const [introHasAudio, mainHasAudio] = await Promise.all([hasAudioStream ...])
GetAudioStreams ==
    /\ cpc = "audio"
    /\ \E i \in BOOLEAN, m \in BOOLEAN :
          probe' = [probe EXCEPT !.introHasAudio = i, !.mainHasAudio = m]
    /\ cpc' = "assemble"
    /\ UNCHANGED <<cfg, hookText, args, eng, wvars>>

\* the rest of buildFFmpegArgs, for the job's hook_text and config
Assemble ==
    /\ cpc = "assemble"
    /\ \E c \in Configs, t \in Texts :
          /\ cfg' = c
          /\ hookText' = t
          /\ args' = buildFFmpegArgs(t, c, probe)
    /\ cpc' = "done"
    /\ UNCHANGED <<probe, eng, wvars>>

NextCompile == GetDurations \/ GetAudioStreams \/ Assemble

SpecCompile == InitCompile /\ [][NextCompile]_vars

----------------------------------------------------------------------------
(* Inputs of the engine invoker *)

MaxStderrLines == 6

StderrLines == { <<>>, <<" ">>, <<"frame">>, <<"Error", "frame">>, <<"Invalid">> }

\* exit codes 'close' may carry; -1 stands for null (ended by a signal)
CloseCodes == {-1, 0, 1}

\* the code 'close' carries after a failed spawn: the negative errno of 'error'
SpawnFailureCodes == {-2}

InitEngine ==
    /\ eng = NoEngine
    /\ WorkerOff
    /\ cpc = "off" /\ probe = NoProbe /\ cfg = NoConfig /\ hookText = NullText
    /\ args = NoArgs

StderrData == \E line \in StderrLines : Len(eng.stderr) < MaxStderrLines /\ OnStderrData(line)

\* an 'error' before the timer fired is a failed spawn: the child never ran, and
\* 'close' follows with the errno; otherwise 'close' carries the exit code or null
Close ==
    \E code \in CloseCodes \cup SpawnFailureCodes :
       /\ (eng.errorEmitted /\ eng.timer # "fired") <=> code \in SpawnFailureCodes
       /\ OnClose(code)

NextEngine == Spawn \/ StderrData \/ OnTimeout \/ OnError \/ Close

SpecEngine == InitEngine /\ [][NextEngine]_vars

\* C3: if the timer fires before any 'error' or 'close', SIGKILL is sent and the result
\* is the timeout error, which no later event changes; if 'error' or 'close' comes
\* first the timer is cancelled, no kill is sent and the result is never the timeout
\* error.
C3_TimeoutFirstEventWins ==
    /\ [](eng.timer = "fired" =>
             eng.killed /\ eng.resolved /\ eng.result = Failure(TimeoutError))
    /\ []((eng.errorEmitted \/ eng.closed) /\ eng.timer # "fired" =>
             /\ eng.timer = "cleared" /\ ~eng.killed /\ eng.resolved
             /\ eng.result.settled /\ eng.result # Failure(TimeoutError))
    /\ [](eng.killed => eng.timer = "fired")
    /\ [][eng.result.settled => eng.result' = eng.result]_vars
    /\ [][eng.timer \in {"fired", "cleared"} => eng.timer' = eng.timer]_vars
    /\ [][eng.killed' => (eng.killed \/ (eng.timer = "armed" /\ eng.timer' = "fired"
                                          /\ ~eng.errorEmitted /\ ~eng.closed))]_vars

C3_Witness ==
    /\ eng.timer = "fired" /\ eng.killed
    /\ eng.closed /\ eng.code = 0 /\ eng.errorEmitted
    /\ eng.result = Failure(TimeoutError)

\* L is the last Len(L) elements of S
IsSuffix(L, S) == Len(L) <= Len(S) /\ L = SubSeq(S, Len(S) - Len(L) + 1, Len(S))

\* the message of a failure is what the diagnostic extraction gives for stderr and code
ExtractedFrom(error, stderr, code) ==
    LET errs == SelectSeq(stderr, IsErrorLine)
        nonBlank == SelectSeq(stderr, IsNonBlank)
    IN  /\ error # NoError
        /\ Len(error.lines) <= 5
        /\ IF errs # <<>>
           THEN /\ error.kind = "stderr"
                /\ IsSuffix(error.lines, errs)
                /\ Len(error.lines) = Min(3, Len(errs))
           ELSE IF nonBlank # <<>>
           THEN /\ error.kind = "stderr"
                /\ IsSuffix(error.lines, nonBlank)
                /\ Len(error.lines) = Min(5, Len(nonBlank))
           ELSE error.kind = "exitcode" /\ error.code = code /\ error.lines = <<>>

\* C23 as stated: whenever 'close' carries a non-zero code and the timer has not
\* fired, the error message is the last (at most 3) error lines of stderr, else the
\* last (at most 5) non-blank lines, else 'FFmpeg exited with code <code>'; it is never
\* empty and never holds more than 5 lines.
C23_DiagnosticOnNonZeroExit ==
    (eng.closed /\ eng.code # 0 /\ eng.timer # "fired") =>
       /\ eng.result.settled /\ ~eng.result.success
       /\ ExtractedFrom(eng.result.error, eng.stderr, eng.code)

\* C23 amended: the same when no 'error' event came before the 'close' (the child
\* was started).
C23_DiagnosticOnExitOfStartedChild ==
    (eng.closed /\ eng.code # 0 /\ eng.timer # "fired" /\ ~eng.errorEmitted) =>
       /\ eng.result.settled /\ ~eng.result.success
       /\ ExtractedFrom(eng.result.error, eng.stderr, eng.code)

C23_Witness ==
    /\ eng.closed /\ eng.code = 1 /\ eng.timer = "cleared" /\ ~eng.errorEmitted
    /\ eng.stderr = << <<"Invalid">>, <<"Error", "frame">>, <<"frame">>, <<"Invalid">>,
                       <<"Error", "frame">>, <<>> >>
    /\ eng.result.error.lines = << <<"Error", "frame">>, <<"Invalid">>, <<"Error", "frame">> >>

\* C24: when 'close' carries code 0 and the timer has not fired, the result is
\* { success: true } with no error, whatever stderr holds.
C24_ExitZeroSucceeds ==
    (eng.closed /\ eng.code = 0 /\ eng.timer # "fired") => eng.result = Success

C24_Witness ==
    /\ eng.closed /\ eng.code = 0 /\ eng.timer = "cleared"
    /\ \E i \in DOMAIN eng.stderr : IsErrorLine(eng.stderr[i])
    /\ eng.result = Success

----------------------------------------------------------------------------
(* The worker: pollForJobs (index.ts) and processJob (processor.ts) *)

MaxPolls == 2

NumJobs == 2

PollIds == 1..MaxPolls

JobIds == 1..NumJobs

\* an Error with a message that is not an engine message
Err(kind) == [kind |-> kind, lines |-> <<>>, code |-> 0]

\* a row of video_jobs; output_url 0 is null, and job j's public URL is j
PendingJob == [status |-> "pending", output_url |-> 0, error_message |-> NoError]

\* ProcessResult; outputUrl 0 is undefined
NoProcessResult == [success |-> FALSE, outputUrl |-> 0, error |-> NoError]

\* the locals of one pollForJobs invocation and of its processJob call
IdlePoll ==
    [ pc |-> "idle",            \* the await the invocation is suspended at
      job |-> 0,                \* const job
      result |-> NoProcessResult,   \* what processJob returns
      exc |-> NoError,          \* the exception caught at line 96
      settled |-> "",           \* how the processJob promise settled: resolved, rejected
      downloaded |-> 0,         \* the downloads of Promise.all that completed
      spawns |-> 0,             \* the calls of runFFmpeg
      ffmpegResult |-> NoResult,\* const ffmpegResult
      outputExists |-> FALSE,   \* what existsSync(outputPath) said at line 722
      cleaned |-> <<>>,         \* the files the loop of cleanup has gone through
      unlinkFailed |-> FALSE ]  \* whether the catch of line 653 caught anything

\* what an awaited supabase call can do: succeed, return { error }, or throw
DbOutcomes == {"ok", "error", "throw"}

\* what runFFmpeg can resolve to
EngineOutcomes ==
    { Success, Failure(TimeoutError), Failure(StartError), Failure(ExtractError(<<>>, 1)) }

\* jobs with status pending, oldest first: .eq("status","pending").order("created_at").limit(1)
PendingJobs == { j \in JobIds : jobs[j].status = "pending" }

OldestPending == CHOOSE j \in PendingJobs : \A k \in PendingJobs : j <= k

\* a processJob call is running in slot p
InProcessJob(p) ==
    poll[p].pc \in {"ensureTmpDir", "download", "build", "ffmpeg", "upload", "insert", "cleanup"}

InitWorker ==
    /\ isProcessing = FALSE
    /\ jobs = [j \in JobIds |-> PendingJob]
    /\ poll = [p \in PollIds |-> IdlePoll]
    /\ eng = NoEngine
    /\ cpc = "off" /\ probe = NoProbe /\ cfg = NoConfig /\ hookText = NullText
    /\ args = NoArgs

\* pollForJobs is called (setInterval or the initial call): lines 30-42
PollStart(p) ==
    /\ poll[p].pc = "idle"
    /\ IF isProcessing
       THEN UNCHANGED poll
       ELSE poll' = [poll EXCEPT ![p].pc = "select"]
    /\ UNCHANGED <<isProcessing, jobs, cvars, eng>>

\* the select returns: lines 37-63 and the outer catch, lines 113-116
SelectDone(p) ==
    /\ poll[p].pc = "select"
    /\ \E o \in DbOutcomes :
          CASE o = "throw" ->
                 /\ isProcessing' = FALSE
                 /\ poll' = [poll EXCEPT ![p] = IdlePoll]
            [] o = "error" ->
                 /\ poll' = [poll EXCEPT ![p] = IdlePoll]
                 /\ UNCHANGED isProcessing
            [] OTHER ->
                 IF PendingJobs = {}
                 THEN /\ poll' = [poll EXCEPT ![p] = IdlePoll]
                      /\ UNCHANGED isProcessing
                 ELSE /\ isProcessing' = TRUE
                      /\ poll' = [poll EXCEPT ![p].pc = "markProcessing",
                                              ![p].job = OldestPending]
    /\ UNCHANGED <<jobs, cvars, eng>>

\* the catch block of lines 96-107, up to its await
Caught(p, e) ==
    poll' = [poll EXCEPT ![p].pc = "catchUpdate", ![p].exc = e]

\* the update to status processing returns, processJob is called: lines 60-68, 664
MarkProcessingDone(p) ==
    /\ poll[p].pc = "markProcessing"
    /\ \E o \in DbOutcomes :
          CASE o = "throw" ->
                 /\ Caught(p, Err("update failed"))
                 /\ UNCHANGED jobs
            [] o = "error" ->
                 /\ poll' = [poll EXCEPT ![p].pc = "ensureTmpDir"]
                 /\ UNCHANGED jobs
            [] OTHER ->
                 /\ poll' = [poll EXCEPT ![p].pc = "ensureTmpDir"]
                 /\ jobs' = [jobs EXCEPT ![poll[p].job].status = "processing"]
    /\ UNCHANGED <<isProcessing, cvars, eng>>

\* processJob's catch and finally, up to the await of cleanup: lines 739-745
Failed(p, e) ==
    poll' = [poll EXCEPT ![p].pc = "cleanup",
                         ![p].result = [success |-> FALSE, outputUrl |-> 0, error |-> e]]

\* await ensureTmpDir() returns or throws: line 664, before the try of line 671
EnsureTmpDirDone(p) ==
    /\ poll[p].pc = "ensureTmpDir"
    /\ \/ poll' = [poll EXCEPT ![p].pc = "download"]
       \/ poll' = [poll EXCEPT ![p].pc = "catchUpdate", ![p].exc = Err("mkdir failed"),
                               ![p].settled = "rejected"]
    /\ UNCHANGED <<isProcessing, jobs, cvars, eng>>

\* DownloadDone going on after the first download that completes
DownloadDoneFirstOnly(p) ==
    /\ poll[p].pc = "download"
    /\ \/ poll' = [poll EXCEPT ![p].pc = "build", ![p].downloaded = @ + 1]
       \/ Failed(p, Err("Failed to download"))
    /\ UNCHANGED <<isProcessing, jobs, cvars, eng>>

\* await Promise.all([downloadFile, downloadFile]): lines 700-706; one of the two
\* downloads completes, or fails and rejects the Promise.all at once
DownloadDone(p) ==
    /\ poll[p].pc = "download"
    /\ \/ poll' = [poll EXCEPT ![p].downloaded = @ + 1,
                               ![p].pc = IF poll[p].downloaded = 1 THEN "build" ELSE @]
       \/ Failed(p, Err("Failed to download"))
    /\ UNCHANGED <<isProcessing, jobs, cvars, eng>>

\* await buildFFmpegArgs(...) returns, runFFmpeg spawns the engine: lines 706-715
BuildDone(p) ==
    /\ poll[p].pc = "build"
    /\ poll' = [poll EXCEPT ![p].pc = "ffmpeg", ![p].spawns = @ + 1]
    /\ UNCHANGED <<isProcessing, jobs, cvars, eng>>

\* await runFFmpeg(...) resolves: lines 715-727
FFmpegDone(p) ==
    /\ poll[p].pc = "ffmpeg"
    /\ \E r \in EngineOutcomes, outputExists \in BOOLEAN :
          IF ~r.success
          THEN poll' = [poll EXCEPT ![p].pc = "cleanup", ![p].ffmpegResult = r,
                                    ![p].result = [success |-> FALSE, outputUrl |-> 0,
                                                   error |-> r.error]]
          ELSE IF ~outputExists
          THEN poll' = [poll EXCEPT ![p].pc = "cleanup", ![p].ffmpegResult = r,
                                    ![p].result = [success |-> FALSE, outputUrl |-> 0,
                                                   error |-> Err("Output file was not created")]]
          ELSE poll' = [poll EXCEPT ![p].pc = "upload", ![p].ffmpegResult = r,
                                    ![p].outputExists = TRUE]
    /\ UNCHANGED <<isProcessing, jobs, cvars, eng>>

\* await uploadToStorage(...): lines 727-730
UploadDone(p) ==
    /\ poll[p].pc = "upload"
    /\ \/ poll' = [poll EXCEPT ![p].pc = "insert", ![p].result.outputUrl = poll[p].job]
       \/ Failed(p, Err("Upload failed"))
    /\ UNCHANGED <<isProcessing, jobs, cvars, eng>>

\* await supabase.from("videos").insert(...): lines 730-738
InsertDone(p) ==
    /\ poll[p].pc = "insert"
    /\ \E o \in DbOutcomes :
          IF o = "throw" THEN Failed(p, Err("insert failed"))
          ELSE poll' = [poll EXCEPT ![p].pc = "cleanup", ![p].result.success = TRUE]
    /\ UNCHANGED <<isProcessing, jobs, cvars, eng>>

\* const filesToCleanup = [introPath, mainPath, outputPath]
filesToCleanup == <<"intro", "main", "output">>

\* what the body of the cleanup loop can do with a file: it is not there, it is
\* unlinked, or existsSync / unlink throws and the catch ignores it
CleanupOutcomes == {"absent", "unlinked", "failed"}

\* the files the loop of lines 648-656 goes through when the body does outcome[i]
\* with file i: all of them, the catch of line 653 ignores a failure
Attempted(outcome) == filesToCleanup

\* the files gone through by a loop that a failure ends
AttemptedUntilFailure(outcome) ==
    LET failing == { i \in 1..Len(filesToCleanup) : outcome[i] = "failed" }
    IN  IF failing = {} THEN filesToCleanup
        ELSE SubSeq(filesToCleanup, 1, CHOOSE i \in failing : \A k \in failing : i <= k)

\* CleanupStep with a loop that a failure ends
CleanupStepStopOnFailure(p) ==
    /\ poll[p].pc = "cleanup" /\ poll[p].cleaned = <<>>
    /\ \E outcome \in [1..Len(filesToCleanup) -> CleanupOutcomes] :
          poll' = [poll EXCEPT ![p].cleaned = AttemptedUntilFailure(outcome),
                               ![p].unlinkFailed = \E i \in DOMAIN outcome : outcome[i] = "failed"]
    /\ UNCHANGED <<isProcessing, jobs, cvars, eng>>

\* the loop of cleanup: lines 648-656
CleanupStep(p) ==
    /\ poll[p].pc = "cleanup" /\ poll[p].cleaned = <<>>
    /\ \E outcome \in [1..Len(filesToCleanup) -> CleanupOutcomes] :
          poll' = [poll EXCEPT ![p].cleaned = Attempted(outcome),
                               ![p].unlinkFailed = \E i \in DOMAIN outcome : outcome[i] = "failed"]
    /\ UNCHANGED <<isProcessing, jobs, cvars, eng>>

\* the poll once processJob has returned: its locals are gone, its promise resolved
ReturnedPoll(pl) ==
    [pl EXCEPT !.settled = "resolved", !.downloaded = 0, !.spawns = 0,
               !.ffmpegResult = NoResult, !.outputExists = FALSE,
               !.cleaned = <<>>, !.unlinkFailed = FALSE]

\* await cleanup(filesToCleanup) returns, processJob resolves: lines 744, 68-92
CleanupDone(p) ==
    /\ poll[p].pc = "cleanup" /\ poll[p].cleaned # <<>>
    /\ LET r == poll[p].result
       IN  IF r.success /\ r.outputUrl # 0
           THEN poll' = [poll EXCEPT ![p] = [ReturnedPoll(@) EXCEPT !.pc = "markDone"]]
           ELSE poll' = [poll EXCEPT ![p] = [ReturnedPoll(@) EXCEPT
                                     !.pc = "markError",
                                     !.result.error =
                                         IF r.error = NoError THEN Err("Unknown error")
                                         ELSE r.error]]
    /\ UNCHANGED <<isProcessing, jobs, cvars, eng>>

\* the finally of lines 110-112
Finally(p) ==
    /\ isProcessing' = FALSE
    /\ poll' = [poll EXCEPT ![p] = IdlePoll]

\* the update to status done returns: lines 72-82, 110-112
MarkDoneDone(p) ==
    /\ poll[p].pc = "markDone"
    /\ \E o \in DbOutcomes :
          CASE o = "throw" ->
                 /\ Caught(p, Err("update failed"))
                 /\ UNCHANGED <<jobs, isProcessing>>
            [] o = "error" ->
                 /\ Finally(p)
                 /\ UNCHANGED jobs
            [] OTHER ->
                 /\ Finally(p)
                 /\ jobs' = [jobs EXCEPT ![poll[p].job].status = "done",
                                         ![poll[p].job].output_url = poll[p].result.outputUrl]
    /\ UNCHANGED <<cvars, eng>>

\* MarkErrorDone writing 'Unknown error' whatever the core message
MarkErrorDoneUnknown(p) ==
    /\ poll[p].pc = "markError"
    /\ \E o \in DbOutcomes :
          CASE o = "throw" ->
                 /\ Caught(p, Err("update failed"))
                 /\ UNCHANGED <<jobs, isProcessing>>
            [] o = "error" ->
                 /\ Finally(p)
                 /\ UNCHANGED jobs
            [] OTHER ->
                 /\ Finally(p)
                 /\ jobs' = [jobs EXCEPT ![poll[p].job].status = "error",
                                         ![poll[p].job].error_message = Err("Unknown error")]
    /\ UNCHANGED <<cvars, eng>>

\* the update to status error returns: lines 85-94, 110-112
MarkErrorDone(p) ==
    /\ poll[p].pc = "markError"
    /\ \E o \in DbOutcomes :
          CASE o = "throw" ->
                 /\ Caught(p, Err("update failed"))
                 /\ UNCHANGED <<jobs, isProcessing>>
            [] o = "error" ->
                 /\ Finally(p)
                 /\ UNCHANGED jobs
            [] OTHER ->
                 /\ Finally(p)
                 /\ jobs' = [jobs EXCEPT ![poll[p].job].status = "error",
                                         ![poll[p].job].error_message = poll[p].result.error]
    /\ UNCHANGED <<cvars, eng>>

\* the update of the catch block returns or throws: lines 100-116
CatchUpdateDone(p) ==
    /\ poll[p].pc = "catchUpdate"
    /\ \E o \in DbOutcomes :
          /\ Finally(p)
          /\ IF o = "ok"
             THEN jobs' = [jobs EXCEPT ![poll[p].job].status = "error",
                                       ![poll[p].job].error_message = poll[p].exc]
             ELSE UNCHANGED jobs
    /\ UNCHANGED <<cvars, eng>>

Next ==
    \E p \in PollIds :
       \/ PollStart(p) \/ SelectDone(p) \/ MarkProcessingDone(p) \/ EnsureTmpDirDone(p)
       \/ DownloadDone(p) \/ BuildDone(p) \/ FFmpegDone(p) \/ UploadDone(p)
       \/ InsertDone(p) \/ CleanupStep(p) \/ CleanupDone(p) \/ MarkDoneDone(p) \/ MarkErrorDone(p)
       \/ CatchUpdateDone(p)

Spec == InitWorker /\ [][Next]_vars

\* C2: at most one job is in flight: processJob never runs in two pollForJobs
\* invocations at once, and isProcessing is true whenever a processJob call runs.
C2_AtMostOneJobInFlight ==
    /\ Cardinality({ p \in PollIds : InProcessJob(p) }) <= 1
    /\ (\E p \in PollIds : InProcessJob(p)) => isProcessing

\* C4: every failure while handling a job makes processJob resolve to
\* { success: false, error }: the processJob promise never rejects.
C4_ProcessJobNeverRejects ==
    \A p \in PollIds : poll[p].settled # "rejected"

\* processJob of run p returned success with an output URL
CoreSucceeded(p) ==
    poll[p].settled = "resolved" /\ poll[p].result.success /\ poll[p].result.outputUrl # 0

\* the error message the core gave run p: the error of the result, or the message
\* of the exception processJob threw
CoreMessage(p) == IF poll[p].settled = "rejected" THEN poll[p].exc ELSE poll[p].result.error

\* run p ends in this step
RunEnds(p) == poll[p].pc \in {"markDone", "markError", "catchUpdate"} /\ poll'[p].pc = "idle"

\* a write of status done comes from a run whose processJob succeeded, with its URL;
\* a run that writes done or error ends with that write
WritesComeFromTheCore ==
    /\ [][\A j \in JobIds :
            (jobs'[j] # jobs[j] /\ jobs'[j].status = "done") =>
               \E p \in PollIds :
                  /\ poll[p].job = j /\ poll[p].pc = "markDone" /\ CoreSucceeded(p)
                  /\ jobs'[j].output_url = poll[p].result.outputUrl
                  /\ poll'[p] = IdlePoll]_vars
    /\ [][\A j \in JobIds :
            (jobs'[j] # jobs[j] /\ jobs'[j].status = "error") =>
               \E p \in PollIds :
                  /\ poll[p].job = j /\ poll[p].pc \in {"markError", "catchUpdate"}
                  /\ poll'[p] = IdlePoll]_vars

PipelineRank(pc) ==
    CASE pc = "ensureTmpDir" -> 0
      [] pc = "download" -> 1
      [] pc = "build" -> 2
      [] pc = "ffmpeg" -> 3
      [] pc = "upload" -> 4
      [] pc = "insert" -> 5
      [] pc = "cleanup" -> 6

\* one step of the processJob call of slot p keeps the order of the pipeline
PipelineStep(p) ==
    LET a == poll[p]
        b == poll'[p]
        failed == ~b.result.success /\ b.result.error # NoError
    IN  (InProcessJob(p) /\ b.pc # a.pc) =>
          /\ b.pc = "ffmpeg" => a.pc = "build" /\ a.downloaded = 2 /\ a.spawns = 0 /\ b.spawns = 1
          /\ b.pc = "build" => a.pc = "download" /\ b.downloaded = 2
          /\ b.pc = "upload" => a.pc = "ffmpeg" /\ b.ffmpegResult.success /\ b.outputExists
          /\ b.pc = "insert" => a.pc = "upload" /\ b.result.outputUrl # 0
          /\ b.pc = "cleanup" => failed \/ a.pc = "insert"
          /\ InProcessJob(p)' => PipelineRank(b.pc) > PipelineRank(a.pc)
          /\ a.pc = "cleanup" => ~InProcessJob(p)'

\* C27: within one processJob call the engine is spawned at most once and only
\* after both downloads completed; the upload is attempted only after the engine
\* reported success and the output file exists; the insert only after the upload
\* gave a URL; a step that fails goes to the cleanup, and no step is gone back to
C27_PipelineOrder ==
    [][\A p \in PollIds : poll[p].spawns <= 1 /\ PipelineStep(p)]_vars

C27_Witness ==
    \E p, q \in PollIds :
       /\ poll[p].pc = "insert" /\ poll[p].spawns = 1 /\ poll[p].downloaded = 2
       /\ poll[q].pc = "cleanup" /\ poll[q].spawns = 0 /\ poll[q].downloaded = 1
       /\ poll[q].result.error = Err("Failed to download")

\* the moves of a job's status the lifecycle allows
LifecycleMoves ==
    { <<"pending", "processing">>, <<"processing", "done">>, <<"processing", "error">> }

\* C28: a job's status only moves pending -> processing -> done or
\* pending -> processing -> error, and isProcessing is false again once every run
\* that set it has ended.
C28_StatusLifecycle ==
    [][ /\ \A j \in JobIds :
             jobs'[j].status # jobs[j].status
                => <<jobs[j].status, jobs'[j].status>> \in LifecycleMoves
        /\ (\A p \in PollIds : poll'[p].pc = "idle") => ~isProcessing' ]_vars

\* a job the worker set to processing, with every run ended and the flag down:
\* only pending jobs are selected, so its status stays processing
StuckInProcessing ==
    /\ \E j \in JobIds : jobs[j].status = "processing"
    /\ \A p \in PollIds : poll[p] = IdlePoll
    /\ ~isProcessing

\* C29: no job is processed more than once: a job that one run has selected and
\* started to process is not selected and processed by an overlapping run.
C29_NoJobProcessedTwice ==
    \A p, q \in PollIds :
       (p # q /\ InProcessJob(p) /\ InProcessJob(q)) => poll[p].job # poll[q].job

\* the steps inside the try of processJob
InPipeline(p) == poll[p].pc \in {"download", "build", "ffmpeg", "upload", "insert"}

\* one step of the processJob call of slot p, as far as the cleanup goes
CleanupFrame(p) ==
    LET a == poll[p]
        b == poll'[p]
    IN  /\ (InPipeline(p) /\ ~InPipeline(p)') => b.pc = "cleanup" /\ b.cleaned = <<>>
        /\ (a.pc = "cleanup" /\ b.pc = "cleanup" /\ b # a) =>
              /\ b.cleaned = filesToCleanup
              /\ b.result = a.result
        /\ (a.pc = "cleanup" /\ b.pc # "cleanup") =>
              /\ a.cleaned = filesToCleanup
              /\ b.settled = "resolved"
              /\ b.result.success = a.result.success
              /\ b.result.outputUrl = a.result.outputUrl
              /\ a.result.error # NoError => b.result.error = a.result.error

\* C30: once processJob is in its pipeline, whatever the outcome, the loop of
\* cleanup goes through the three temp files before processJob settles; a file
\* that cannot be deleted does not end the loop and does not change the result.
C30_CleanupOnEveryPath ==
    [][\A p \in PollIds : CleanupFrame(p)]_vars

C30_Witness ==
    \E p, q \in PollIds :
       /\ poll[p].pc = "cleanup" /\ poll[p].cleaned = filesToCleanup
       /\ poll[p].unlinkFailed /\ poll[p].result.success
       /\ poll[q].pc = "markError" /\ poll[q].result.error = TimeoutError

----------------------------------------------------------------------------
(* Reading a compiled program *)

PadLabels == {"v0", "v1", "a0", "a1", "outv", "outa"}

InputStreams == {"0:v", "0:a", "1:v", "1:a"}

\* the places where label l is produced / consumed by a fragment, and mapped
ProducedAt(prog, l) ==
    { <<i, k>> \in (DOMAIN prog.filterParts) \X (1..2) :
         k \in DOMAIN prog.filterParts[i].outs /\ prog.filterParts[i].outs[k] = l }

ConsumedAt(prog, l) ==
    { <<i, k>> \in (DOMAIN prog.filterParts) \X (1..2) :
         k \in DOMAIN prog.filterParts[i].ins /\ prog.filterParts[i].ins[k] = l }

MappedAt(prog, l) == { k \in DOMAIN prog.maps : prog.maps[k] = l }

Appears(prog, l) ==
    ProducedAt(prog, l) # {} \/ ConsumedAt(prog, l) # {} \/ MappedAt(prog, l) # {}

WellFormed(prog) ==
    /\ \A i \in DOMAIN prog.filterParts :
          /\ Len(prog.filterParts[i].ins) <= 2 /\ Len(prog.filterParts[i].outs) <= 2
          /\ \A k \in DOMAIN prog.filterParts[i].ins :
                prog.filterParts[i].ins[k] \in PadLabels \cup InputStreams
          /\ \A k \in DOMAIN prog.filterParts[i].outs :
                prog.filterParts[i].outs[k] \in PadLabels
    /\ \A k \in DOMAIN prog.maps : prog.maps[k] \in {"outv", "outa"}
    /\ \A l \in PadLabels :
          Appears(prog, l) =>
             /\ Cardinality(ProducedAt(prog, l)) = 1
             /\ Cardinality(ConsumedAt(prog, l)) + Cardinality(MappedAt(prog, l)) = 1
             /\ \A pr \in ProducedAt(prog, l), co \in ConsumedAt(prog, l) : pr[1] < co[1]

\* the filters of the chains of the fragments producing pad l
FiltersInto(prog, l) ==
    { prog.filterParts[i].chain[k] : <<i, k>> \in
        { ik \in (DOMAIN prog.filterParts) \X (1..8) :
             /\ ik[2] \in DOMAIN prog.filterParts[ik[1]].chain
             /\ prog.filterParts[ik[1]].outs = <<l>> } }

\* the fragments holding a filter named f
FragmentsWith(prog, f) ==
    { i \in DOMAIN prog.filterParts :
         \E k \in DOMAIN prog.filterParts[i].chain : prog.filterParts[i].chain[k].f = f }

BlendKinds == {"crossfade", "push-up", "zoom-cut"}

\* the configured transition asks for a blend
IsBlend(transition) ==
    transition.present /\ transition.type \in BlendKinds /\ transition.duration > 0

----------------------------------------------------------------------------
(* Claims about the compiler, checked under SpecCompile *)

\* C1: for every config with one of the four audio policies or none configured, in the
\* compiled program every pad label that appears is produced by exactly one fragment
\* and consumed exactly once, by a later fragment or by a -map of outv / outa.
C1_GraphWellFormed ==
    (cpc = "done" /\ cfg.audioSource \in {"", "hook", "demo", "both", "none"})
        => WellFormed(args)

C1_Witness ==
    /\ cpc = "done"
    /\ cfg.audioSource = "both" /\ ~probe.mainHasAudio /\ probe.introHasAudio
    /\ cfg.transition.type = "crossfade" /\ cfg.transition.duration > 0
    /\ TrimActive(cfg.hookTrim) /\ cfg.hookEffect.type = "zoom-in"
    /\ Truthy(hookText)
    /\ Len(args.filterParts) = 6 /\ args.maps = <<"outv", "outa">>
    /\ WellFormed(args)

\* C5: an active trim (present, useFullVideo = false) gives start = startTime and
\* duration = endTime - startTime; otherwise start = 0 and duration = the probed
\* duration; for the hook and for the demo.
C5_TimingResolution ==
    cpc = "done" =>
       /\ IF cfg.hookTrim.present /\ ~cfg.hookTrim.useFullVideo
          THEN /\ args.hookStartTime = cfg.hookTrim.startTime
               /\ args.hookDuration = cfg.hookTrim.endTime - cfg.hookTrim.startTime
          ELSE /\ args.hookStartTime = 0
               /\ args.hookDuration = probe.introDuration
       /\ IF cfg.demoTrim.present /\ ~cfg.demoTrim.useFullVideo
          THEN /\ args.demoStartTime = cfg.demoTrim.startTime
               /\ args.demoDuration = cfg.demoTrim.endTime - cfg.demoTrim.startTime
          ELSE /\ args.demoStartTime = 0
               /\ args.demoDuration = probe.mainDuration

C5_Witness ==
    /\ cpc = "done"
    /\ cfg.hookTrim = Trim(1000, 3000, TRUE) /\ args.hookDuration = ProbeFallbackMs
    /\ cfg.demoTrim = Trim(1000, 1400, FALSE) /\ args.demoDuration = 400
    /\ args.demoStartTime = 1000

\* C6: a hook or demo trim with useFullVideo = false and endTime <= startTime makes the
\* compilation fail: buildFFmpegArgs never returns an argument vector for it.
C6_InvalidTrimRejected ==
    ~ /\ cpc = "done"
      /\ \/ TrimActive(cfg.hookTrim) /\ cfg.hookTrim.endTime <= cfg.hookTrim.startTime
         \/ TrimActive(cfg.demoTrim) /\ cfg.demoTrim.endTime <= cfg.demoTrim.startTime

\* C7: the frame count d of every animated effect (zoompan) equals
\* max(floor(resolvedDuration * 30), 30), so d >= 30, for the hook and the demo.
C7_FrameClamp ==
    cpc = "done" =>
       /\ \A e \in FiltersInto(args, "v0") :
             e.f = "zoompan" =>
                /\ e.p[1] = Max(FloorDiv(args.hookDuration * 30, 1000), 30)
                /\ e.p[1] >= 30
       /\ \A e \in FiltersInto(args, "v1") :
             e.f = "zoompan" =>
                /\ e.p[1] = Max(FloorDiv(args.demoDuration * 30, 1000), 30)
                /\ e.p[1] >= 30

C7_Witness ==
    /\ cpc = "done"
    /\ args.hookDuration < 0 /\ args.demoDuration > 0 /\ args.demoDuration < 1000
    /\ \E e \in FiltersInto(args, "v0") : e.f = "zoompan" /\ e.p[1] = 30
    /\ \E e \in FiltersInto(args, "v1") : e.f = "zoompan" /\ e.p[1] = 30

\* C8: the offset of an emitted blend equals max(0, hookDuration - duration) and is
\* never negative; a blend longer than the hook is still emitted, with offset 0.
C8_TransitionOffset ==
    (cpc = "done" /\ IsBlend(cfg.transition)) =>
       /\ FragmentsWith(args, "xfade") # {}
       /\ \A e \in FiltersInto(args, "outv") :
             e.f = "xfade" =>
                /\ e.p[2] = Max(0, args.hookDuration - cfg.transition.duration)
                /\ e.p[2] >= 0
                /\ (cfg.transition.duration > args.hookDuration => e.p[2] = 0)

C8_Witness ==
    /\ cpc = "done"
    /\ IsBlend(cfg.transition) /\ args.hookDuration >= 0
    /\ cfg.transition.duration > args.hookDuration
    /\ \E e \in FiltersInto(args, "outv") : e.f = "xfade" /\ e.p[2] = 0

\* C9: for zoom-cut the emitted blend duration is min(duration, 0.3 s) and the offset
\* is max(0, hookDuration - duration) with the configured, uncapped duration.
C9_ZoomCutCap ==
    (cpc = "done" /\ IsBlend(cfg.transition) /\ cfg.transition.type = "zoom-cut") =>
       /\ \E e \in FiltersInto(args, "outv") : e.f = "xfade" /\ e.s = "zoomin"
       /\ \A e \in FiltersInto(args, "outv") :
             e.f = "xfade" =>
                /\ e.p[1] = Min(cfg.transition.duration, 300)
                /\ e.p[1] <= 300
                /\ e.p[2] = Max(0, args.hookDuration - cfg.transition.duration)

C9_Witness ==
    /\ cpc = "done"
    /\ cfg.transition = Transition("zoom-cut", 500) /\ args.hookDuration = 5000
    /\ \E e \in FiltersInto(args, "outv") : e.f = "xfade" /\ e.p = <<300, 4500>>

\* C10: without a blend (transition absent, cut, of unknown kind, or of duration <= 0)
\* the video pads are combined by [v0][v1]concat=n=2:v=1:a=0[outv] and no xfade is
\* emitted; with a blend exactly one xfade fragment [v0][v1]...[outv] and no video
\* concat are emitted.
C10_ConcatFallback ==
    cpc = "done" =>
       LET t == cfg.transition
           fallback == \/ ~t.present
                       \/ t.type = "cut"
                       \/ t.type \notin BlendKinds
                       \/ t.duration <= 0
           videoConcats == { i \in DOMAIN args.filterParts :
                                args.filterParts[i] = ConcatVideo }
           xfades == FragmentsWith(args, "xfade")
       IN  IF fallback
           THEN /\ Cardinality(videoConcats) = 1
                /\ xfades = {}
                /\ ProducedAt(args, "outv") = { <<i, 1>> : i \in videoConcats }
           ELSE /\ Cardinality(xfades) = 1
                /\ videoConcats = {}
                /\ \A i \in xfades :
                      /\ args.filterParts[i].ins = <<"v0", "v1">>
                      /\ args.filterParts[i].outs = <<"outv">>
                      /\ Len(args.filterParts[i].chain) = 1

C10_Witness ==
    /\ cpc = "done"
    /\ cfg.transition = Transition("crossfade", 0)
    /\ \E i \in DOMAIN args.filterParts : args.filterParts[i] = ConcatVideo
    /\ FragmentsWith(args, "xfade") = {}

\* C11: with the audio policy none the program has no fragment producing a0, a1 or
\* outa, no -map of outa and no audio codec flags; with any other policy outa is mapped
\* exactly once, after outv, and the audio codec flags are present; outv is mapped
\* exactly once in every case.
C11_AudioMapIffIncluded ==
    cpc = "done" =>
       /\ Cardinality({ i \in DOMAIN args.maps : args.maps[i] = "outv" }) = 1
       /\ IF AudioSourceOf(cfg) = "none"
          THEN /\ \A l \in {"a0", "a1", "outa"} : ProducedAt(args, l) = {}
               /\ args.maps = <<"outv">>
               /\ ~args.audioCodec
          ELSE /\ args.maps = <<"outv", "outa">>
               /\ args.audioCodec

C11_Witness ==
    /\ cpc = "done"
    /\ cfg.audioSource = "none" /\ probe.introHasAudio /\ probe.mainHasAudio
    /\ args.maps = <<"outv">> /\ ~args.audioCodec
    /\ Len(args.filterParts) = 3

\* the audio fragment of one side is as the policy, the trim and the probe require
SideAudioOk(prog, needed, hasAudio, trim, duration, input, video, out) ==
    LET at == { i \in DOMAIN prog.filterParts : prog.filterParts[i].outs = <<out>> }
        readers == ConsumedAt(prog, input)
        videoTrims == { e.p : e \in { x \in FiltersInto(prog, video) : x.f = "trim" } }
        audioTrims == { e.p : e \in { x \in FiltersInto(prog, out) : x.f = "atrim" } }
    IN  IF ~needed
        THEN at = {} /\ readers = {} /\ ProducedAt(prog, out) = {}
        ELSE /\ Cardinality(at) = 1
             /\ Cardinality(ProducedAt(prog, out)) = 1
             /\ \A i \in at :
                   IF hasAudio
                   THEN /\ prog.filterParts[i].ins = <<input>>
                        /\ readers = { <<i, 1>> }
                        /\ audioTrims = videoTrims
                        /\ IF TrimActive(trim)
                           THEN /\ audioTrims = { <<trim.startTime, trim.endTime>> }
                                /\ prog.filterParts[i].chain[1].f = "atrim"
                                /\ Len(prog.filterParts[i].chain) = 2
                                /\ prog.filterParts[i].chain[2] =
                                      Flt("asetpts", <<>>, "PTS-STARTPTS")
                           ELSE prog.filterParts[i].chain = << Flt("anull", <<>>, "") >>
                   ELSE /\ prog.filterParts[i].ins = <<>>
                        /\ readers = {}
                        /\ prog.filterParts[i].chain =
                              << Flt("anullsrc", <<44100, duration>>, "stereo") >>

\* C12: each side the policy needs (hook for hook/both/absent, demo for demo/both) gets
\* exactly one audio fragment: reading the clip's audio, trimmed to the window of that
\* side's video trim or passed through, when the clip has an audio stream; a silent
\* stereo 44.1 kHz source of that side's resolved duration when it has none; a side
\* the policy does not need gets no audio fragment.
C12_PerSideAudio ==
    cpc = "done" =>
       LET src == AudioSourceOf(cfg)
       IN  /\ SideAudioOk(args, src \in {"hook", "both"}, probe.introHasAudio,
                          cfg.hookTrim, args.hookDuration, "0:a", "v0", "a0")
           /\ SideAudioOk(args, src \in {"demo", "both"}, probe.mainHasAudio,
                          cfg.demoTrim, args.demoDuration, "1:a", "v1", "a1")

C12_Witness ==
    /\ cpc = "done"
    /\ cfg.audioSource = "both" /\ probe.introHasAudio /\ ~probe.mainHasAudio
    /\ cfg.hookTrim = Trim(2000, 7000, FALSE) /\ cfg.demoTrim = Trim(1000, 1400, FALSE)
    /\ Fragment(<<"0:a">>, << Flt("atrim", <<2000, 7000>>, ""),
                             Flt("asetpts", <<>>, "PTS-STARTPTS") >>, <<"a0">>)
          \in { args.filterParts[i] : i \in DOMAIN args.filterParts }
    /\ Fragment(<<>>, << Flt("anullsrc", <<44100, 400>>, "stereo") >>, <<"a1">>)
          \in { args.filterParts[i] : i \in DOMAIN args.filterParts }

\* the fragments producing outa / outv
OutaFragments(prog) ==
    { prog.filterParts[i] : i \in { j \in DOMAIN prog.filterParts :
                                      prog.filterParts[j].outs = <<"outa">> } }

OutvFragments(prog) ==
    { prog.filterParts[i] : i \in { j \in DOMAIN prog.filterParts :
                                      prog.filterParts[j].outs = <<"outv">> } }

\* C13: with the audio policy hook, or absent, the combine-audio fragment is
\* [a0]apad=whole_dur=D[outa] with D = hookDuration + demoDuration, the resolved
\* durations of the video chains.
C13_HookPadWholeDuration ==
    (cpc = "done" /\ cfg.audioSource \in {"", "hook"}) =>
       OutaFragments(args) =
          { Fragment(<<"a0">>,
                     << Flt("apad", <<args.hookDuration + args.demoDuration>>, "") >>,
                     <<"outa">>) }

C13_Witness ==
    /\ cpc = "done"
    /\ cfg.audioSource = "" /\ ~probe.introHasAudio
    /\ cfg.hookTrim = Trim(2000, 7000, FALSE) /\ cfg.demoTrim = Trim(1000, 1400, FALSE)
    /\ OutaFragments(args) =
          { Fragment(<<"a0">>, << Flt("apad", <<5400>>, "") >>, <<"outa">>) }

\* the time at which the demo segment begins in [outv]: the offset of the blend, or
\* the end of the hook segment under a concatenation
DemoVideoStart(prog) ==
    LET blends == { e \in FiltersInto(prog, "outv") : e.f = "xfade" }
    IN  IF blends = {} THEN prog.hookDuration
        ELSE CHOOSE t \in { e.p[2] : e \in blends } : TRUE

\* C14: with the audio policy demo, [a1] is delayed on both channels by hookDuration
\* in whole milliseconds, and that delay is the time at which the demo segment begins
\* in the output video, for every transition.
C14_DemoDelayMatchesVideo ==
    (cpc = "done" /\ cfg.audioSource = "demo") =>
       /\ OutaFragments(args) =
             { Fragment(<<"a1">>,
                        << Flt("adelay", <<args.hookDuration, args.hookDuration>>, "") >>,
                        <<"outa">>) }
       /\ \A fr \in OutaFragments(args) : fr.chain[1].p[1] = DemoVideoStart(args)

\* C15: with the audio policy both, the combine-audio fragment is the concatenation
\* of exactly [a0] then [a1], the order in which [v0] then [v1] are combined.
C15_BothConcatOrder ==
    (cpc = "done" /\ cfg.audioSource = "both") =>
       /\ OutaFragments(args) =
             { Fragment(<<"a0", "a1">>, << Flt("concat", <<2, 0, 1>>, "") >>, <<"outa">>) }
       /\ \A fr \in OutvFragments(args) : fr.ins = <<"v0", "v1">>
       /\ OutvFragments(args) # {}

C15_Witness ==
    /\ cpc = "done"
    /\ cfg.audioSource = "both" /\ cfg.transition = Transition("push-up", 9000)
    /\ probe.introHasAudio /\ ~probe.mainHasAudio
    /\ Fragment(<<"a0", "a1">>, << Flt("concat", <<2, 0, 1>>, "") >>, <<"outa">>)
          \in OutaFragments(args)
    /\ \E fr \in OutvFragments(args) : fr.ins = <<"v0", "v1">> /\ fr.chain[1].f = "xfade"

\* the length of [outv]: a concatenation plays both segments in full; a blend plays
\* the hook up to the offset and then the demo
VideoOutDuration(prog) ==
    LET blends == { e \in FiltersInto(prog, "outv") : e.f = "xfade" }
    IN  IF blends = {} THEN prog.hookDuration + prog.demoDuration
        ELSE DemoVideoStart(prog) + prog.demoDuration

\* the length of [outa] when [a0] lasts hookDuration and [a1] lasts demoDuration
AudioOutDuration(prog) ==
    LET fr == CHOOSE x \in OutaFragments(prog) : TRUE
        e == fr.chain[1]
    IN  CASE e.f = "apad" -> Max(prog.hookDuration, e.p[1])
          [] e.f = "adelay" -> e.p[1] + prog.demoDuration
          [] OTHER -> prog.hookDuration + prog.demoDuration

\* C16: for every audio policy other than none and every transition the combined
\* audio lasts as long as the combined video.
C16_AudioVideoSameLength ==
    (cpc = "done" /\ cfg.audioSource \in {"", "hook", "demo", "both"}) =>
       AudioOutDuration(args) = VideoOutDuration(args)

\* the place of a filter in a video chain: trim, scaling, effect, text overlay
ChainRank(f) ==
    CASE f = "trim" -> 1 [] f = "setpts" -> 2
      [] f = "scale" -> 3 [] f = "pad" -> 4 [] f = "setsar" -> 5 [] f = "fps" -> 6
      [] f = "zoompan" -> 7 [] f = "scale+crop" -> 7
      [] f = "drawtext" -> 8
      [] OTHER -> 0

\* a video chain: trim first (iff the trim is active), then scaling, then at most one
\* effect, then the text overlay (iff there is one)
VideoChainOrdered(chain, trim, withText) ==
    /\ \A k \in DOMAIN chain : ChainRank(chain[k].f) > 0
    /\ \A j, k \in DOMAIN chain : j < k => ChainRank(chain[j].f) < ChainRank(chain[k].f)
    /\ (\E k \in DOMAIN chain : chain[k].f = "trim") <=> TrimActive(trim)
    /\ \E k \in DOMAIN chain : chain[k].f = "scale"
    /\ (\E k \in DOMAIN chain : chain[k].f = "drawtext") <=> withText

\* C17: the fragments come in the order intro video chain [v0], main video chain [v1],
\* hook audio [a0] (if any), demo audio [a1] (if any), combine video [outv], combine
\* audio [outa] (only with audio); in a video chain the trim precedes scaling, which
\* precedes the effect, which precedes the text overlay.
C17_FragmentOrder ==
    cpc = "done" =>
       LET src == AudioSourceOf(cfg)
           fp == args.filterParts
       IN  /\ [ i \in DOMAIN fp |-> fp[i].outs ] =
                 << <<"v0">>, <<"v1">> >>
                    \o (IF src \in {"hook", "both"} THEN << <<"a0">> >> ELSE <<>>)
                    \o (IF src \in {"demo", "both"} THEN << <<"a1">> >> ELSE <<>>)
                    \o << <<"outv">> >>
                    \o (IF src \in {"hook", "demo", "both"} THEN << <<"outa">> >> ELSE <<>>)
           /\ fp[1].ins = <<"0:v">> /\ fp[2].ins = <<"1:v">>
           /\ VideoChainOrdered(fp[1].chain, cfg.hookTrim, Truthy(hookText))
           /\ VideoChainOrdered(fp[2].chain, cfg.demoTrim, FALSE)

C17_Witness ==
    /\ cpc = "done"
    /\ cfg.audioSource = "both" /\ Truthy(hookText)
    /\ TrimActive(cfg.hookTrim) /\ cfg.hookEffect.type = "vertical-pan"
    /\ TrimActive(cfg.demoTrim) /\ cfg.demoEffect.type = "punch-zoom"
    /\ [ i \in DOMAIN args.filterParts |-> args.filterParts[i].outs[1] ] =
          <<"v0", "v1", "a0", "a1", "outv", "outa">>
    /\ [ k \in DOMAIN args.filterParts[1].chain |-> args.filterParts[1].chain[k].f ] =
          <<"trim", "setpts", "scale", "pad", "setsar", "fps", "zoompan", "drawtext">>
    /\ [ k \in DOMAIN args.filterParts[2].chain |-> args.filterParts[2].chain[k].f ] =
          <<"trim", "setpts", "scale", "pad", "setsar", "fps", "zoompan">>

C20_CenterCropGeometry ==
    cpc = "done" =>
       \A l \in {"v0", "v1"} :
          \A e \in FiltersInto(args, l) :
             LET effect == IF l = "v0" THEN cfg.hookEffect ELSE cfg.demoEffect
                 m == CASE effect.intensity = "subtle" -> 5
                        [] effect.intensity = "medium" -> 10
                        [] effect.intensity = "strong" -> 15
             IN  (e.f = "scale+crop" /\ effect.intensity \in {"subtle", "medium", "strong"}) =>
                    /\ 100 * e.p[1] = 1080 * (100 + m)
                    /\ 100 * e.p[2] = 1920 * (100 + m)
                    /\ e.p[1] >= 1080 /\ (e.p[1] - 1080) % 2 = 0
                    /\ e.p[2] >= 1920 /\ (e.p[2] - 1920) % 2 = 0

C20_Witness ==
    /\ cpc = "done"
    /\ cfg.hookEffect = Effect("center-crop", "subtle")
    /\ cfg.demoEffect = Effect("center-crop", "medium")
    /\ \E e \in FiltersInto(args, "v0") : e.f = "scale+crop" /\ e.p = <<1134, 2016>>
    /\ \E e \in FiltersInto(args, "v1") : e.f = "scale+crop" /\ e.p = <<1188, 2112>>

\* the effect kinds that have a filter
KnownEffectKinds == {"zoom-in", "punch-zoom", "vertical-pan", "center-crop"}

\* the effect contributes nothing: absent, none or of an unknown kind
Inert(effect) == ~effect.present \/ effect.type \notin KnownEffectKinds

\* C22: an effect that is absent, none or of an unknown kind leaves the video chain
\* exactly as compiled with no effect configured (no empty filter in the chain), for
\* the hook and for the demo; an unknown intensity compiles as intensity medium
\* (multiplier 1.0).
C22_InertEffect ==
    cpc = "done" =>
       LET plain == buildFFmpegArgs(hookText,
                       [cfg EXCEPT !.hookEffect = NoEffect, !.demoEffect = NoEffect], probe)
           AsMedium(e) == IF e.present /\ e.intensity \notin {"subtle", "medium", "strong"}
                          THEN [e EXCEPT !.intensity = "medium"] ELSE e
           medium == buildFFmpegArgs(hookText,
                        [cfg EXCEPT !.hookEffect = AsMedium(cfg.hookEffect),
                                    !.demoEffect = AsMedium(cfg.demoEffect)], probe)
       IN  /\ Inert(cfg.hookEffect) => args.filterParts[1] = plain.filterParts[1]
           /\ Inert(cfg.demoEffect) => args.filterParts[2] = plain.filterParts[2]
           /\ \A i \in 1..2 : \A k \in DOMAIN args.filterParts[i].chain :
                 args.filterParts[i].chain[k].f # ""
           /\ args.filterParts = medium.filterParts

C22_Witness ==
    /\ cpc = "done"
    /\ cfg.hookEffect = Effect("sparkle", "strong")
    /\ cfg.demoEffect = Effect("sparkle", "extreme")
    /\ ~TrimActive(cfg.hookTrim) /\ ~TrimActive(cfg.demoTrim) /\ hookText = NullText
    /\ args.filterParts[1] = Fragment(<<"0:v">>, ScaleChain, <<"v0">>)
    /\ args.filterParts[2] = Fragment(<<"1:v">>, ScaleChain, <<"v1">>)

----------------------------------------------------------------------------
(* The overlay-text escaping on its own: hookText.replace(...).replace(...)... *)

MaxTextLen == 3

\* the five metacharacters and an ordinary character
Alphabet == { BSL, "'", ":", "[", "]", "a" }

EscapeInputs == UNION { [1..n -> Alphabet] : n \in 0..MaxTextLen }

NoEscaped == [escapedText |-> <<>>]

InitEscape ==
    /\ eng = NoEngine
    /\ WorkerOff
    /\ cpc = "escape"
    /\ probe = NoProbe
    /\ cfg = NoConfig
    /\ hookText \in { Text(s) : s \in EscapeInputs }
    /\ args = NoEscaped

\* const escapedText = hookText.replace(...) x 5
EscapeText ==
    /\ cpc = "escape"
    /\ args' = [escapedText |-> escapeText(hookText.s)]
    /\ cpc' = "escaped"
    /\ UNCHANGED <<probe, cfg, hookText, eng, wvars>>

NextEscape == EscapeText

SpecEscape == InitEscape /\ [][NextEscape]_vars

\* one character escaped on its own
EscapeChar(c) ==
    CASE c = BSL -> <<BSL, BSL>>
      [] c = "'" -> <<"'", BSL, "'", "'">>
      [] c = ":" -> <<BSL, ":">>
      [] c = "[" -> <<BSL, "[">>
      [] c = "]" -> <<BSL, "]">>
      [] OTHER -> <<c>>

\* every character of s escaped independently, in one pass
RECURSIVE EscapeOnePass(_)
EscapeOnePass(s) ==
    IF s = <<>> THEN <<>> ELSE EscapeChar(Head(s)) \o EscapeOnePass(Tail(s))

\* C18: the five substitutions applied in the order backslash, single quote, colon,
\* '[', ']' give the string obtained by escaping every character of the input
\* independently in one pass: no later substitution escapes a character an earlier
\* one produced.
C18_EscapeIsOnePass ==
    cpc = "escaped" => args.escapedText = EscapeOnePass(hookText.s)

C18_Witness ==
    /\ cpc = "escaped"
    /\ hookText.s = <<BSL, "'", ":">>
    /\ args.escapedText = <<BSL, BSL, "'", BSL, "'", "'", BSL, ":">>

----------------------------------------------------------------------------
(* The effect generator on its own: one effect, one frame count *)

MaxDurationFrames == 45

EffectKinds == { "none", "zoom-in", "punch-zoom", "vertical-pan", "center-crop", "sparkle" }

\* "extreme" is a value outside the intensity type
Intensities == { "subtle", "medium", "strong", "extreme" }

EffectInputs == { NoEffect } \cup { Effect(t, i) : t \in EffectKinds, i \in Intensities }

InitEffect ==
    /\ eng = NoEngine
    /\ WorkerOff
    /\ cpc = "effect"
    /\ probe = NoProbe
    /\ hookText = NullText
    /\ \E e \in EffectInputs, hook \in BOOLEAN :
          cfg = IF hook THEN [NoConfig EXCEPT !.hookEffect = e]
                        ELSE [NoConfig EXCEPT !.demoEffect = e]
    /\ \E n \in (-1)..MaxDurationFrames :
          args = [durationFrames |-> n, hookChain |-> <<>>, demoChain |-> <<>>]

\* the effect steps of the two video chains: lines 243-248 and 302-307
ApplyEffect ==
    /\ cpc = "effect"
    /\ args' = [args EXCEPT
                  !.hookChain = EffectChain(cfg.hookEffect, args.durationFrames, TRUE),
                  !.demoChain = EffectChain(cfg.demoEffect, args.durationFrames, FALSE)]
    /\ cpc' = "effected"
    /\ UNCHANGED <<probe, cfg, hookText, eng, wvars>>

NextEffect == ApplyEffect

SpecEffect == InitEffect /\ [][NextEffect]_vars

\* z='min(1+on*increment,zoomEnd)' at frame on, times 1000 * d
ZoomInExpr(e, on) == Min(1000 * e.p[4] + on * e.p[3], e.p[2] * e.p[4])

\* z='if(lt(on,punchFrames),1+on*increment,punchZoom)' at frame on, times 1000 * punchFrames
PunchZoomExpr(e, on) ==
    IF on < e.p[3] THEN 1000 * e.p[5] + on * e.p[4] ELSE e.p[2] * e.p[5]

\* the ramp branch of the punch-zoom expression at frame on
PunchZoomRamp(e, on) == 1000 * e.p[5] + on * e.p[4]

\* the effect filters the two chains got, with the intensity they were built for
EmittedEffects ==
    { <<args.hookChain[k], cfg.hookEffect>> : k \in DOMAIN args.hookChain }
       \cup { <<args.demoChain[k], cfg.demoEffect>> : k \in DOMAIN args.demoChain }

----------------------------------------------------------------------------
(* The probes: getVideoDuration and hasAudioStream, one ffprobe child each *)

MaxOutputLen == 3

\* what ffprobe may write to stdout, as tokens: a digit, the decimal point, a text
\* that is no number, white space (a blank or a newline), the codec type
ProbeTokens == { "7", ".", "N/A", " ", "audio" }

\* String.prototype.trim
RECURSIVE TrimLeft(_)
TrimLeft(s) == IF s # <<>> /\ Head(s) = " " THEN TrimLeft(Tail(s)) ELSE s

RECURSIVE TrimRight(_)
TrimRight(s) ==
    IF s # <<>> /\ s[Len(s)] = " " THEN TrimRight(SubSeq(s, 1, Len(s) - 1)) ELSE s

TrimString(s) == TrimRight(TrimLeft(s))

\* the length of the run of digits s starts with
RECURSIVE DigitRun(_)
DigitRun(s) == IF s # <<>> /\ Head(s) = "7" THEN 1 + DigitRun(Tail(s)) ELSE 0

\* the number written as n digits 7
RECURSIVE Sevens(_)
Sevens(n) == IF n = 0 THEN 0 ELSE 10 * Sevens(n - 1) + 7

RECURSIVE Pow10(_)
Pow10(n) == IF n = 0 THEN 1 ELSE 10 * Pow10(n - 1)

NaN == [nan |-> TRUE, ms |-> 0]

\* parseFloat: the longest prefix that is a decimal number, in ms; NaN without one
parseFloat(s) ==
    LET i == DigitRun(s)
        rest == SubSeq(s, i + 1, Len(s))
        f == IF rest # <<>> /\ Head(rest) = "." THEN DigitRun(Tail(rest)) ELSE 0
    IN  IF i = 0 /\ f = 0 THEN NaN
        ELSE [nan |-> FALSE,
              ms |-> Sevens(i) * 1000 + (Sevens(f) * 1000) \div Pow10(f)]

\* isNaN(duration) ? 5 : duration
DurationOrZero(parsed) == IF parsed.nan THEN 0 ELSE parsed.ms

DurationOrDefault(parsed) == IF parsed.nan THEN ProbeFallbackMs ELSE parsed.ms

\* the promise of a probe: pending, or resolved with a duration / a flag
ProbePending == [state |-> "pending", duration |-> 0, hasAudio |-> FALSE]

ResolvedDuration(ms) == [state |-> "resolved", duration |-> ms, hasAudio |-> FALSE]

ResolvedFlag(b) == [state |-> "resolved", duration |-> 0, hasAudio |-> b]

\* resolve(v): only the first call settles the promise
ProbeResolve(result, v) == IF result.state = "pending" THEN v ELSE result

NoProbeChild ==
    [ spawned |-> FALSE, output |-> <<>>, errorEmitted |-> FALSE, closed |-> FALSE,
      result |-> ProbePending ]

\* cpc names the probe: getVideoDuration or hasAudioStream
InitProbe ==
    /\ WorkerOff
    /\ cpc \in {"getVideoDuration", "hasAudioStream"}
    /\ probe = NoProbe /\ cfg = NoConfig /\ hookText = NullText /\ args = NoArgs
    /\ eng = NoProbeChild

\* const ffprobe = spawn("ffprobe", [...])
SpawnProbe ==
    /\ ~eng.spawned
    /\ eng' = [eng EXCEPT !.spawned = TRUE]
    /\ UNCHANGED <<cvars, wvars>>

\* ffprobe.stdout.on("data", ...)
OnProbeData ==
    /\ eng.spawned /\ ~eng.closed /\ Len(eng.output) < MaxOutputLen
    /\ \E tok \in ProbeTokens : eng' = [eng EXCEPT !.output = Append(@, tok)]
    /\ UNCHANGED <<cvars, wvars>>

\* ffprobe.on("close", ...)
OnProbeClose ==
    /\ eng.spawned /\ ~eng.closed
    /\ eng' = [eng EXCEPT
                 !.closed = TRUE,
                 !.result = ProbeResolve(@,
                     IF cpc = "getVideoDuration"
                     THEN ResolvedDuration(DurationOrDefault(parseFloat(TrimString(eng.output))))
                     ELSE ResolvedFlag(TrimString(eng.output) = <<"audio">>))]
    /\ UNCHANGED <<cvars, wvars>>

\* ffprobe.on("error", ...)
OnProbeError ==
    /\ eng.spawned /\ ~eng.errorEmitted /\ ~eng.closed
    /\ eng' = [eng EXCEPT
                 !.errorEmitted = TRUE,
                 !.result = ProbeResolve(@,
                     IF cpc = "getVideoDuration" THEN ResolvedDuration(ProbeFallbackMs)
                     ELSE ResolvedFlag(FALSE))]
    /\ UNCHANGED <<cvars, wvars>>

NextProbe == SpawnProbe \/ OnProbeData \/ OnProbeClose \/ OnProbeError

\* the child is spawned, and the tool emits 'error' or 'close'
SpecProbe ==
    /\ InitProbe /\ [][NextProbe]_vars
    /\ WF_vars(SpawnProbe) /\ WF_vars(OnProbeClose \/ OnProbeError)

\* C25: a probe whose tool cannot be started ('error' first) resolves to 5 s / false;
\* one whose output does not start with a number resolves to 5 s; one that does not
\* report "audio" resolves to false; a probe never rejects, is settled as soon as
\* 'error' or 'close' was emitted, in either order, keeps its first result, and
\* eventually resolves.
C25_ProbeFallback ==
    /\ [](eng.result.state \in {"pending", "resolved"})
    /\ []((eng.errorEmitted \/ eng.closed) => eng.result.state = "resolved")
    /\ [][(eng.result.state = "pending" /\ eng'.errorEmitted) =>
             eng'.result = IF cpc = "getVideoDuration" THEN ResolvedDuration(5000)
                           ELSE ResolvedFlag(FALSE)]_vars
    /\ [][(eng.result.state = "pending" /\ eng'.closed /\ cpc = "getVideoDuration"
            /\ (TrimString(eng.output) = <<>> \/ Head(TrimString(eng.output)) \notin {"7", "."}
                \/ TrimString(eng.output) = <<".">>)) =>
             eng'.result = ResolvedDuration(5000)]_vars
    /\ [][(eng.result.state = "pending" /\ eng'.closed /\ cpc = "hasAudioStream") =>
             eng'.result = ResolvedFlag(\E i \in DOMAIN eng.output :
                                          /\ eng.output[i] = "audio"
                                          /\ \A j \in DOMAIN eng.output \ {i} :
                                                eng.output[j] = " ")]_vars
    /\ [][eng.result.state = "resolved" => eng'.result = eng.result]_vars
    /\ <>(eng.result.state = "resolved")

C25_Witness ==
    /\ cpc = "getVideoDuration"
    /\ eng.output = <<" ", "N/A", " ">> /\ eng.closed /\ eng.errorEmitted = FALSE
    /\ eng.result = ResolvedDuration(5000)

====
